---- MODULE Spec2Model ----
(***************************************************************************)
(* Ledger consistency engine of DIYB (veziop/DIYB): transactions,          *)
(* categories, accounts and the per-account Balance history, as kept by    *)
(* the FastAPI routers under backend/api/routers and api/routers.          *)
(*                                                                         *)
(* Money values are integers (cents scaled down).  The four tables are the *)
(* variables transaction, balance, category and account.  Every request    *)
(* runs inside one SQLAlchemy session (autoflush = False) that get_db      *)
(* commits on success and rolls back on any exception; the working state   *)
(* of a session is a record d with the tables plus d.new, the Balance      *)
(* objects added with db.add() that have not been flushed yet (queries and *)
(* bulk UPDATE/DELETE statements do not see them).                         *)
(***************************************************************************)
EXTENDS Integers, FiniteSets, Sequences, TLC

(* now is the second of the latest committed write, last the request just   *)
(* served (its kind, its input, its outcome, whether its handler had        *)
(* written to the session, and the tables before it), budget the number of  *)
(* requests still to be served.                                             *)
VARIABLES transaction, balance, category, account, now, last, budget

vars == <<transaction, balance, category, account, now, last, budget>>

-----------------------------------------------------------------------------
(* Bounds of the model *)

MaxOps == 3
MaxLedgerOps == 4
MaxAccountOps == 4
MaxCategoryOps == 4
MaxFundedOps == 2

MaxTransactionOps == 2

(* Program constants *)

StageId == 1
NoneId == 0
Unset == 0

(* the titles a category may carry; 1, 2 and 3 title the categories of Init *)
Titles == {1, 2, 3, 4}

(* the names an account may carry; 1 and 2 name the two accounts of Init *)
Names == {1, 2, 3}

(* the IBAN tails a request may carry *)
IbanTails == {1}

(* the amounts a request may carry: one unit of outflow, one unit of inflow *)
Amounts == {0 - 1, 1}

Positive == {a \in Amounts : a > 0}

Max(S) == CHOOSE x \in S : \A y \in S : y <= x

(* INTEGER PRIMARY KEY of SQLite: one more than the largest id in use *)
NextId(S) == IF S = {} THEN 1 ELSE Max(S) + 1

-----------------------------------------------------------------------------
(* The unit of work *)

DB == [txns |-> transaction, bals |-> balance, cats |-> category,
       accts |-> account, new |-> <<>>]

Ok(d) == [err |-> "none", d |-> d]

Fail(e, d) == [err |-> e, d |-> d]

RECURSIVE flushNew(_, _)
flushNew(bals, new) ==
    IF new = <<>> THEN bals
    ELSE flushNew(bals \cup {[id |-> NextId({b.id : b \in bals}),
                              entry_datetime |-> Head(new).entry_datetime,
                              transaction_amount_record |-> Head(new).transaction_amount_record,
                              running_total |-> Head(new).running_total,
                              is_current |-> Head(new).is_current,
                              transaction_id |-> Head(new).transaction_id]},
                  Tail(new))

(* db.flush(): the pending Balance objects are inserted and get their ids *)
flush(d) == [d EXCEPT !.bals = flushNew(d.bals, d.new), !.new = <<>>]

(* a get_db that commits whatever the endpoint did, raising or not *)
get_db_without_rollback(d0, out) == flush(out.d)

(* get_db: commit when the endpoint returns, rollback when it raises *)
get_db(d0, out) == IF out.err = "none" THEN flush(out.d) ELSE d0

-----------------------------------------------------------------------------
(* Category ledger *)

update_category_amount_subtracting(d, category_id, amount) ==
    IF category_id \notin DOMAIN d.cats
    THEN Fail("Unexpected", d)
    ELSE Ok([d EXCEPT !.cats[category_id].assigned_amount = @ - amount])

update_category_amount_skipping_absent(d, category_id, amount) ==
    IF category_id \notin DOMAIN d.cats
    THEN Ok(d)
    ELSE Ok([d EXCEPT !.cats[category_id].assigned_amount = @ + amount])

update_category_amount(d, category_id, amount) ==
    IF category_id \notin DOMAIN d.cats
    THEN Fail("Unexpected", d)
    ELSE Ok([d EXCEPT !.cats[category_id].assigned_amount = @ + amount])

-----------------------------------------------------------------------------
(* Account balance ledger *)

(* db.query(Balance).join(Transaction).filter(Transaction.account_id == a) *)
AccountRows(d, account_id) ==
    {b \in d.bals : /\ b.transaction_id \in DOMAIN d.txns
                    /\ d.txns[b.transaction_id].account_id = account_id}

(* ... .filter(Balance.is_current): the rows .first() may return *)
CurrentRows(d, account_id) == {b \in AccountRows(d, account_id) : b.is_current}

(* ... .order_by(Balance.entry_datetime.desc()).first(): rows with the same *)
(* second-precision timestamp come back in an unspecified order             *)
LatestOf(rows) == {b \in rows : \A c \in rows : c.entry_datetime <= b.entry_datetime}

OldestOf(rows) == {b \in rows : \A c \in rows : b.entry_datetime <= c.entry_datetime}

(* the rows of the 'checking' accounts *)
CheckingRows(d) ==
    UNION {AccountRows(d, a) : a \in {c \in DOMAIN d.accts : d.accts[c].is_checking}}

get_time_based_oldest(d, account_id) ==
    OldestOf(IF account_id # NoneId THEN AccountRows(d, account_id) ELSE CheckingRows(d))

(* without an account id the function looks at the 'checking' account *)
get_time_based_current(d, account_id) ==
    LatestOf(IF account_id # NoneId THEN AccountRows(d, account_id) ELSE CheckingRows(d))

(* get_time_based_current(..., _set=True) on the row the query returned *)
SetCurrent(d, row) ==
    [d EXCEPT !.bals = {IF b.id = row.id THEN [b EXCEPT !.is_current = TRUE] ELSE b
                        : b \in d.bals}]

(* the running totals create_balance_entry may start from *)
CurrentTotals(d, account_id) ==
    LET flagged == CurrentRows(d, account_id)
        cands == IF flagged # {} THEN flagged ELSE get_time_based_current(d, account_id)
    IN  IF cands = {} THEN {0} ELSE {b.running_total : b \in cands}

(* the set of session states create_balance_entry can leave *)
create_balance_entry(d, transaction_id, account_id, amount_difference, transaction_amount, t) ==
    LET entries == AccountRows(d, account_id)
        cleared == {IF b \in entries THEN [b EXCEPT !.is_current = FALSE] ELSE b
                    : b \in d.bals}
    IN  {[d EXCEPT !.bals = cleared,
                   !.new = Append(d.new,
                       [entry_datetime |-> t,
                        transaction_amount_record |->
                            IF transaction_amount = Unset THEN amount_difference
                            ELSE transaction_amount,
                        running_total |-> current_total + amount_difference,
                        is_current |-> TRUE,
                        transaction_id |-> transaction_id])]
         : current_total \in CurrentTotals(d, account_id)}

delete_latest_balance_entry(d, transaction_id) ==
    LET rows == {b \in d.bals : b.transaction_id = transaction_id}
    IN  [d EXCEPT !.bals = d.bals \ LatestOf(rows)]

delete_current_balance_entries(d, transaction_id) ==
    [d EXCEPT !.bals = {b \in d.bals : b.transaction_id # transaction_id \/ ~b.is_current}]

delete_balance_entries(d, transaction_id) ==
    [d EXCEPT !.bals = {b \in d.bals : b.transaction_id # transaction_id}]

-----------------------------------------------------------------------------
(* Transaction lifecycle *)

StageCategories(d) == {c \in DOMAIN d.cats : d.cats[c].is_stage}

(* a pre-check that looks at the category amount without the new amount *)
category_is_negative(d, data) ==
    d.cats[data.category_id].assigned_amount < 0

(* the pre-check of create: the category amount would become negative *)
category_would_be_negative(d, data) ==
    data.amount + d.cats[data.category_id].assigned_amount < 0

(* a stage rule that looks at the category the caller named, not at stage *)
outflow_from_no_category(d, amount, category_id) ==
    amount < 0 /\ category_id = NoneId

(* the stage rule of create: money outflow from the 'stage' category *)
outflow_from_stage(d, amount, category_id) ==
    amount < 0 /\ category_id \in StageCategories(d)

inflow_of_any_kind(data) ==
    data.amount > 0

(* an inflow that is not a transfer leg is filed under the 'stage' category *)
inflow_to_stage(data) ==
    data.amount > 0 /\ ~data.is_transfer

create_new_transaction_entry(d, data, t) ==
    IF data.account_id \notin DOMAIN d.accts THEN {Fail("NotFound", d)}
    ELSE IF /\ data.category_id # NoneId
            /\ ~data.is_transfer
            /\ data.category_id \notin DOMAIN d.cats
    THEN {Fail("NotFound", d)}
    ELSE IF /\ data.category_id # NoneId
            /\ ~data.is_transfer
            /\ category_would_be_negative(d, data)
    THEN {Fail("NegativeBalance", d)}
    ELSE
    LET category_id == IF inflow_to_stage(data)
                       THEN StageId ELSE data.category_id
        id == NextId(DOMAIN d.txns)
        model == [amount |-> data.amount, is_transfer |-> data.is_transfer,
                  category_id |-> category_id, account_id |-> data.account_id,
                  creation_datetime |-> t, last_update_datetime |-> t]
        d1 == flush([d EXCEPT !.txns = (id :> model) @@ d.txns])
        o2 == IF category_id # NoneId /\ ~data.is_transfer
              THEN update_category_amount(d1, category_id, data.amount)
              ELSE Ok(d1)
    IN  IF data.amount < 0 /\ StageCategories(d) = {} THEN {Fail("Unexpected", d)}
        ELSE IF outflow_from_stage(d, data.amount, category_id)
        THEN {Fail("Forbidden", d)}
        ELSE IF o2.err # "none" THEN {o2}
        ELSE {Ok(d3) : d3 \in create_balance_entry(o2.d, id, data.account_id,
                                                   data.amount, Unset, t)}

(* DELETE /transaction/{id}.  db.delete cascades to the Balance rows that the *)
(* relationship loads from the table; the reversing row is still pending     *)
(* then (the session does not autoflush), the commit inserts it before it    *)
(* deletes the cascaded rows, and it stays in the table.                     *)
delete_transaction(d, id, t) ==
    IF id \notin DOMAIN d.txns THEN {Fail("NotFound", d)}
    ELSE
    LET model == d.txns[id]
        cascade == {b \in d.bals : b.transaction_id = id}
        removed(d2) == [d2 EXCEPT
                          !.txns = [i \in DOMAIN d2.txns \ {id} |-> d2.txns[i]],
                          !.bals = {b \in d2.bals : b.id \notin {c.id : c \in cascade}}]
    IN  {LET o2 == update_category_amount(d1, model.category_id, 0 - model.amount)
         IN  IF o2.err # "none" THEN o2 ELSE Ok(removed(flush(o2.d)))
         : d1 \in create_balance_entry(d, id, model.account_id, 0 - model.amount, Unset, t)}

(* the amount counted as changed whenever the request carries one *)
amount_changed_when_supplied(update_data, model) == update_data.amount # Unset

amount_changed_never(update_data, model) == FALSE

(* PATCH /transaction/{id}: what the request changes *)
amount_changed(update_data, model) ==
    update_data.amount # Unset /\ update_data.amount # model.amount

category_changed_never(update_data, model) == FALSE

category_changed(update_data, model) ==
    update_data.category_id # Unset /\ update_data.category_id # model.category_id

account_changed(update_data, model) ==
    update_data.account_id # Unset /\ update_data.account_id # model.account_id

(* the tail of the handler, from the setattr loop on *)
update_finish(d, id, upd, amount_chg, category_chg, amount_difference, t) ==
    LET model == d.txns[id]
        updated == [amount |-> IF upd.amount # Unset THEN upd.amount ELSE model.amount,
                    is_transfer |-> model.is_transfer,
                    category_id |-> IF upd.category_id # Unset THEN upd.category_id
                                    ELSE model.category_id,
                    account_id |-> IF upd.account_id # Unset THEN upd.account_id
                                   ELSE model.account_id,
                    creation_datetime |-> model.creation_datetime,
                    last_update_datetime |-> t]
        d1 == [d EXCEPT !.txns[id] = updated]
        o2 == IF ~category_chg
              THEN update_category_amount(d1, updated.category_id, amount_difference)
              ELSE Ok(d1)
    IN  IF ~amount_chg THEN {Ok(d1)}
        ELSE IF o2.err # "none" THEN {o2}
        ELSE {Ok(d3) : d3 \in create_balance_entry(o2.d, id, updated.account_id,
                                                   amount_difference, upd.amount, t)}

(* the account_changed branch, once both running totals have been read *)
update_move(d, id, upd, amount_chg, category_chg, origin_account_total, destination_account_total, t) ==
    LET model == d.txns[id]
        own == {b \in AccountRows(d, model.account_id) : b.transaction_id = id}
        negative_accounts ==
            \/ /\ ~amount_chg
               /\ model.amount > 0
               /\ origin_account_total - model.amount < 0
            \/ /\ ~amount_chg
               /\ model.amount < 0
               /\ destination_account_total + model.amount < 0
            \/ /\ amount_chg
               /\ upd.amount > 0
               /\ origin_account_total - upd.amount < 0
            \/ /\ amount_chg
               /\ upd.amount < 0
               /\ destination_account_total + upd.amount < 0
        d1 == delete_balance_entries(d, id)
        remaining == get_time_based_current(d1, model.account_id)
        promoted == IF remaining = {} THEN {d1} ELSE {SetCurrent(d1, r) : r \in remaining}
        repointed(latest, previous_balance_model) ==
            IF latest.id = previous_balance_model.id THEN promoted ELSE {d1}
        appended(d2) ==
            IF ~amount_chg
            THEN UNION {update_finish(d3, id, upd, amount_chg, category_chg,
                                      upd.amount - model.amount, t)
                        : d3 \in create_balance_entry(d2, id, upd.account_id,
                                                      model.amount, model.amount, t)}
            ELSE update_finish(d2, id, upd, amount_chg, category_chg, upd.amount, t)
    IN  IF negative_accounts THEN {Fail("NegativeBalance", d)}
        ELSE IF own = {} THEN {Fail("Unexpected", d)}
        ELSE UNION {appended(d2) :
                    d2 \in UNION {repointed(latest, previous_balance_model) :
                                  latest \in get_time_based_current(d, model.account_id),
                                  previous_balance_model \in LatestOf(own)}}

(* the balance part of the handler, after the category deltas *)
update_balances(d, id, upd, amount_chg, category_chg, account_chg, t) ==
    LET model == d.txns[id]
        amount_difference == upd.amount - model.amount
        origin == CurrentRows(d, model.account_id)
        destination == CurrentRows(d, upd.account_id)
        destination_totals == IF destination = {} THEN {0}
                              ELSE {b.running_total : b \in destination}
        with(origin_account_total) ==
            IF ~account_chg /\ amount_chg /\ origin_account_total + amount_difference < 0
            THEN {Fail("NegativeBalance", d)}
            ELSE IF account_chg
            THEN UNION {update_move(d, id, upd, amount_chg, category_chg,
                                    origin_account_total, destination_account_total, t)
                        : destination_account_total \in destination_totals}
            ELSE update_finish(d, id, upd, amount_chg, category_chg,
                               amount_difference, t)
    IN  IF origin = {} THEN {Fail("Unexpected", d)}
        ELSE UNION {with(b.running_total) : b \in origin}

partially_update_transaction(d, id, upd, t) ==
    IF id \notin DOMAIN d.txns THEN {Fail("NotFound", d)}
    ELSE IF upd.account_id # Unset /\ upd.account_id \notin DOMAIN d.accts
    THEN {Fail("NotFound", d)}
    ELSE IF upd.category_id # Unset /\ upd.category_id \notin DOMAIN d.cats
    THEN {Fail("NotFound", d)}
    ELSE
    LET model == d.txns[id]
        category_model_id == IF upd.category_id # Unset THEN upd.category_id
                             ELSE model.category_id
        has_category_model == category_model_id \in DOMAIN d.cats
        outflow == upd.amount < 0 \/ model.amount < 0
        amount_chg == amount_changed(upd, model)
        amount_difference == upd.amount - model.amount
        category_chg == category_changed(upd, model)
        account_chg == account_changed(upd, model)
        o1 == IF category_chg
              THEN update_category_amount(d, model.category_id, 0 - model.amount)
              ELSE Ok(d)
        o2 == IF category_chg /\ o1.err = "none"
              THEN update_category_amount(o1.d, upd.category_id,
                       IF upd.amount # Unset THEN upd.amount ELSE model.amount)
              ELSE o1
    IN  IF outflow /\ upd.category_id # StageId /\ ~has_category_model
        THEN {Fail("Unexpected", d)}
        ELSE IF outflow /\ (upd.category_id = StageId \/ d.cats[category_model_id].is_stage)
        THEN {Fail("Forbidden", d)}
        ELSE IF amount_chg /\ ~has_category_model
        THEN {Fail("Unexpected", d)}
        ELSE IF /\ amount_chg
                /\ d.cats[category_model_id].assigned_amount + amount_difference < 0
        THEN {Fail("NegativeBalance", d)}
        ELSE IF o2.err # "none" THEN {o2}
        ELSE update_balances(o2.d, id, upd, amount_chg, category_chg,
                             account_chg, t)

(* datetime_now is put into both dictionaries and is not handed on: each  *)
(* create_new_transaction_entry call reads the clock again and overwrites *)
(* creation_datetime and last_update_datetime, the first leg at t and the *)
(* second at t_to                                                         *)
create_transfer_transactions(d, id_from, id_to, amount, t, t_to) ==
    LET transaction_from_data == [amount |-> 0 - amount, category_id |-> NoneId,
                                  account_id |-> id_from, is_transfer |-> TRUE]
        transaction_to_data == [amount |-> amount, category_id |-> NoneId,
                                account_id |-> id_to, is_transfer |-> TRUE]
    IN  UNION {IF o1.err # "none" THEN {o1}
               ELSE create_new_transaction_entry(o1.d, transaction_to_data, t_to)
               : o1 \in create_new_transaction_entry(d, transaction_from_data, t)}

(* POST /account/{id_from}/transfer/{id_to}; the 403 "would result in negative *)
(* 'from account' amount" is the NegativeBalance failure                       *)
transfer_between_accounts(d, id_from, id_to, amount, t, t_to) ==
    LET current == CurrentRows(d, id_from)
        with(current_running_total, found) ==
            IF found /\ current_running_total - amount < 0
            THEN {Fail("NegativeBalance", d)}
            ELSE create_transfer_transactions(d, id_from, id_to, amount, t, t_to)
    IN  IF id_from \notin DOMAIN d.accts \/ id_to \notin DOMAIN d.accts
        THEN {Fail("NotFound", d)}
        ELSE IF current = {} THEN with(0, FALSE)
        ELSE UNION {with(b.running_total, TRUE) : b \in current}

-----------------------------------------------------------------------------
(* Category endpoints *)

(* db.delete(category_model): Category.transactions has no delete cascade, *)
(* the unit of work sets category_id of the category's transactions to NULL *)
deleted_category(d, id) ==
    [d EXCEPT !.cats = [c \in DOMAIN d.cats \ {id} |-> d.cats[c]],
              !.txns = [i \in DOMAIN d.txns |->
                           IF d.txns[i].category_id = id
                           THEN [d.txns[i] EXCEPT !.category_id = NoneId]
                           ELSE d.txns[i]]]

category_is_last(d, id) ==
    id = Max(DOMAIN d.cats)

(* the category the delete endpoint protects *)
category_is_protected(d, id) ==
    id = StageId

delete_category_dropping_funds(d, id) ==
    IF id \notin DOMAIN d.cats THEN Fail("NotFound", d)
    ELSE IF category_is_protected(d, id) THEN Fail("Forbidden", d)
    ELSE Ok(deleted_category(d, id))

delete_category(d, id) ==
    IF id \notin DOMAIN d.cats THEN Fail("NotFound", d)
    ELSE IF category_is_protected(d, id) THEN Fail("Forbidden", d)
    ELSE LET swept == IF d.cats[id].assigned_amount # 0 /\ StageId \in DOMAIN d.cats
                      THEN [d EXCEPT !.cats[StageId].assigned_amount =
                                         @ + d.cats[id].assigned_amount]
                      ELSE d
         IN  Ok(deleted_category(swept, id))

(* POST /category/{id}/move; the 403 "would result in negative amount" is *)
(* the Forbidden failure                                                  *)
move_amount_unguarded(d, id, id_to, amount) ==
    IF id \notin DOMAIN d.cats \/ id_to \notin DOMAIN d.cats THEN Fail("NotFound", d)
    ELSE LET d1 == [d EXCEPT !.cats[id].assigned_amount = @ - amount]
         IN  Ok([d1 EXCEPT !.cats[id_to].assigned_amount = @ + amount])

move_amount(d, id, id_to, amount) ==
    IF id \notin DOMAIN d.cats \/ id_to \notin DOMAIN d.cats THEN Fail("NotFound", d)
    ELSE IF d.cats[id].assigned_amount - amount < 0 THEN Fail("Forbidden", d)
    ELSE LET d1 == [d EXCEPT !.cats[id].assigned_amount = @ - amount]
         IN  Ok([d1 EXCEPT !.cats[id_to].assigned_amount = @ + amount])

-----------------------------------------------------------------------------
(* A request is served while the budget of requests lasts.  A request that   *)
(* failed was rolled back and left the tables as they were, so the requests  *)
(* that may follow it are those that may follow the state before it: a       *)
(* behaviour is followed up to its first failed request.                     *)
Serving == budget > 0 /\ last.err = "none"

(* the request ends: get_db commits or rolls back, the tables are replaced *)
Finish(op, req, out, t) ==
    LET d == get_db(DB, out)
    IN  /\ budget' = budget - 1
        /\ transaction' = d.txns
        /\ balance' = d.bals
        /\ category' = d.cats
        /\ account' = d.accts
        /\ last' = [op |-> op, req |-> req, err |-> out.err, dirty |-> out.d # DB,
                     pre |-> DB]
        /\ now' = IF out.err = "none" THEN t ELSE now

-----------------------------------------------------------------------------
(* Requests *)

Init ==
    /\ transaction = <<>>
    /\ balance = {}
    /\ category = (1 :> [assigned_amount |-> 0, is_stage |-> TRUE, title |-> 1])
                  @@ (2 :> [assigned_amount |-> 1, is_stage |-> FALSE, title |-> 2])
                  @@ (3 :> [assigned_amount |-> 1, is_stage |-> FALSE, title |-> 3])
    /\ account = (1 :> [is_checking |-> TRUE, name |-> 1, iban_tail |-> NoneId])
                 @@ (2 :> [is_checking |-> FALSE, name |-> 2, iban_tail |-> NoneId])
    /\ now = 0
    /\ last = [op |-> "init", req |-> <<>>, err |-> "none", dirty |-> FALSE,
               pre |-> DB]
    /\ budget = MaxOps

(* now_factory() when a request arrives: the second of the previous request *)
(* or a later one; only the order of the timestamps is observable, so a    *)
(* second in which no row was written is not represented                    *)
Clock == {now} \cup {now + 1 : b \in {c \in balance : c.entry_datetime = now}}

(* The requests.  Ids name the existing rows; an id that is absent from its *)
(* table is named alone, in one request per kind.                           *)
AbsentTransaction == NextId(DOMAIN transaction)

AbsentCategory == NextId(DOMAIN category)

AbsentAccount == NextId(DOMAIN account)

(* TransactionRequest: amount is not zero, category_id is optional *)
CreateRequests ==
    [amount : Amounts, category_id : {NoneId} \cup DOMAIN category,
     account_id : DOMAIN account]
    \cup {[amount |-> 0 - 1, category_id |-> AbsentCategory, account_id |-> 1],
          [amount |-> 1, category_id |-> NoneId, account_id |-> AbsentAccount]}

(* model_dump(exclude_unset=True) of a TransactionPartialRequest: every field *)
(* is optional                                                                *)
UpdateRequests ==
    [amount : Amounts \cup {Unset}, category_id : {Unset} \cup DOMAIN category,
     account_id : {Unset} \cup DOMAIN account]
    \cup {[amount |-> Unset, category_id |-> AbsentCategory, account_id |-> Unset],
          [amount |-> Unset, category_id |-> Unset, account_id |-> AbsentAccount]}

UpdateTargets ==
    ((DOMAIN transaction) \X UpdateRequests)
    \cup {<<AbsentTransaction, [amount |-> Unset, category_id |-> Unset,
                                account_id |-> Unset]>>}

(* AccountTransferRequest: amount > 0 *)
TransferRequests ==
    [id_from : DOMAIN account, id_to : DOMAIN account, amount : Positive]
    \cup {[id_from |-> AbsentAccount, id_to |-> 1, amount |-> 1],
          [id_from |-> 1, id_to |-> AbsentAccount, amount |-> 1]}

(* MoveRequest: amount > 0 *)
MoveRequests ==
    [id : DOMAIN category, id_to : DOMAIN category, amount : Positive]
    \cup {[id |-> AbsentCategory, id_to |-> 1, amount |-> 1],
          [id |-> 1, id_to |-> AbsentCategory, amount |-> 1]}

CreateTransaction(amount, category_id, account_id) ==
    /\ Serving
    /\ \E t \in Clock :
        \E out \in create_new_transaction_entry(DB,
                      [amount |-> amount, category_id |-> category_id,
                       account_id |-> account_id, is_transfer |-> FALSE], t) :
            Finish("create", [amount |-> amount, category_id |-> category_id,
                              account_id |-> account_id], out, t)

DeleteTransaction(id) ==
    /\ Serving
    /\ \E t \in Clock :
        \E out \in delete_transaction(DB, id, t) : Finish("delete", [id |-> id], out, t)

PartiallyUpdateTransaction(id, update_data) ==
    /\ Serving
    /\ \E t \in Clock :
        \E out \in partially_update_transaction(DB, id, update_data, t) :
            Finish("update", [id |-> id, update_data |-> update_data], out, t)

TransferBetweenAccounts(id_from, id_to, amount) ==
    /\ Serving
    /\ \E t \in Clock, tick \in {0, 1} :
        \E out \in transfer_between_accounts(DB, id_from, id_to, amount, t, t + tick) :
            Finish("transfer", [id_from |-> id_from, id_to |-> id_to, amount |-> amount],
                   out, t + tick)

DeleteCategory(id) ==
    /\ Serving
    /\ Finish("delete_category", [id |-> id], delete_category(DB, id), now)

MoveAmount(id, id_to, amount) ==
    /\ Serving
    /\ Finish("move", [id |-> id, id_to |-> id_to, amount |-> amount],
              move_amount(DB, id, id_to, amount), now)

Next ==
    \/ \E r \in CreateRequests : CreateTransaction(r.amount, r.category_id, r.account_id)
    \/ \E r \in UpdateTargets : PartiallyUpdateTransaction(r[1], r[2])
    \/ \E id \in DOMAIN transaction \cup {AbsentTransaction} : DeleteTransaction(id)
    \/ \E r \in TransferRequests : TransferBetweenAccounts(r.id_from, r.id_to, r.amount)
    \/ \E id \in DOMAIN category \cup {AbsentCategory} : DeleteCategory(id)
    \/ \E r \in MoveRequests : MoveAmount(r.id, r.id_to, r.amount)

Spec == Init /\ [][Next]_vars

(* The ledger alone: transactions are created and deleted and amounts are    *)
(* transferred, over one request more than Spec follows.                     *)
LedgerInit ==
    /\ transaction = <<>>
    /\ balance = {}
    /\ category = (1 :> [assigned_amount |-> 0, is_stage |-> TRUE, title |-> 1])
                  @@ (2 :> [assigned_amount |-> 1, is_stage |-> FALSE, title |-> 2])
                  @@ (3 :> [assigned_amount |-> 1, is_stage |-> FALSE, title |-> 3])
    /\ account = (1 :> [is_checking |-> TRUE, name |-> 1, iban_tail |-> NoneId])
                 @@ (2 :> [is_checking |-> FALSE, name |-> 2, iban_tail |-> NoneId])
    /\ now = 0
    /\ last = [op |-> "init", req |-> <<>>, err |-> "none", dirty |-> FALSE,
               pre |-> DB]
    /\ budget = MaxLedgerOps

LedgerNext ==
    \/ \E r \in CreateRequests : CreateTransaction(r.amount, r.category_id, r.account_id)
    \/ \E id \in DOMAIN transaction \cup {AbsentTransaction} : DeleteTransaction(id)
    \/ \E r \in TransferRequests : TransferBetweenAccounts(r.id_from, r.id_to, r.amount)

SpecLedger == LedgerInit /\ [][LedgerNext]_vars

-----------------------------------------------------------------------------
(* What the properties speak of *)

RECURSIVE SumAmounts(_, _)
SumAmounts(txns, ids) ==
    IF ids = {} THEN 0
    ELSE LET i == CHOOSE j \in ids : TRUE
         IN  txns[i].amount + SumAmounts(txns, ids \ {i})

(* the sum of the amounts of the transactions recorded on an account *)
Recorded(d, account_id) ==
    SumAmounts(d.txns, {i \in DOMAIN d.txns : d.txns[i].account_id = account_id})

Succeeded(op) == last.op = op /\ last.err = "none"

Failed == last.err # "none"

-----------------------------------------------------------------------------
(* C1, balance conservation: for every account, the running_total of a row  *)
(* flagged current equals the sum of the amounts of the transactions        *)
(* recorded on the account, and an account without Balance rows has         *)
(* transactions summing to 0.                                               *)
BalanceConservation ==
    \A a \in DOMAIN account :
        /\ AccountRows(DB, a) = {} => Recorded(DB, a) = 0
        /\ \A b \in CurrentRows(DB, a) : b.running_total = Recorded(DB, a)

(* C2, single current pointer: among the Balance rows whose transaction     *)
(* references an account, at most one is flagged current.                   *)
SingleCurrentPointer ==
    \A a \in DOMAIN account : Cardinality(CurrentRows(DB, a)) <= 1

(* C3, category non-negativity: every category that is not the stage        *)
(* category has assigned_amount >= 0.                                       *)
CategoryNonNegativity ==
    \A c \in DOMAIN category :
        ~category[c].is_stage => category[c].assigned_amount >= 0

(* C4, account non-negativity: no account's current row has a running_total *)
(* below zero.                                                              *)
AccountNonNegativity ==
    \A a \in DOMAIN account : \A b \in CurrentRows(DB, a) : b.running_total >= 0

(* C5, atomicity on failure: after a request that failed, every table holds *)
(* the rows it held before the request.                                     *)
AtomicityOnFailure ==
    Failed => /\ transaction = last.pre.txns
              /\ balance = last.pre.bals
              /\ category = last.pre.cats
              /\ account = last.pre.accts

(* a request failed after its handler had changed rows in the session *)
AtomicityOnFailureWitness == Failed /\ last.dirty

(* C6, validate-before-mutate: a partial update that fails has written     *)
(* nothing to the session before its failing check.                        *)
ValidateBeforeMutate ==
    last.op = "update" /\ Failed => ~last.dirty

(* C7, no-op update: a partial update whose supplied amount, category and   *)
(* account all equal the transaction's values leaves the Balance rows, the  *)
(* category amounts and so the account totals as they were; no row is       *)
(* appended.                                                                *)
Same(supplied, value) == supplied = Unset \/ supplied = value

NoOpRequest ==
    /\ last.op = "update"
    /\ last.req.id \in DOMAIN last.pre.txns
    /\ Same(last.req.update_data.amount, last.pre.txns[last.req.id].amount)
    /\ Same(last.req.update_data.category_id, last.pre.txns[last.req.id].category_id)
    /\ Same(last.req.update_data.account_id, last.pre.txns[last.req.id].account_id)

NoOpUpdate ==
    NoOpRequest => /\ balance = last.pre.bals
                   /\ category = last.pre.cats
                   /\ DOMAIN transaction = DOMAIN last.pre.txns
                   /\ \A i \in DOMAIN transaction :
                          [transaction[i] EXCEPT !.last_update_datetime = 0]
                          = [last.pre.txns[i] EXCEPT !.last_update_datetime = 0]

(* the request supplied all three fields, each equal to the stored value, *)
(* and succeeded                                                          *)
NoOpUpdateWitness ==
    /\ NoOpRequest
    /\ last.err = "none"
    /\ last.req.update_data.amount # Unset
    /\ last.req.update_data.account_id # Unset
    /\ last.req.update_data.category_id # Unset

(* the Balance rows of the tables that the request added *)
NewRows == {b \in balance : b.id \notin {c.id : c \in last.pre.bals}}

NewRowsOn(account_id) ==
    {b \in NewRows : /\ b.transaction_id \in DOMAIN transaction
                     /\ transaction[b.transaction_id].account_id = account_id}

(* C8, transfer symmetry: a successful transfer of A from X to another      *)
(* account Y adds exactly one row to X, with running_total = total(X) - A,  *)
(* and exactly one to Y, with running_total = total(Y) + A, both flagged    *)
(* current; total(X) is the total create_balance_entry starts from.         *)
TransferSymmetry ==
    Succeeded("transfer") /\ last.req.id_from # last.req.id_to =>
        /\ Cardinality(NewRowsOn(last.req.id_from)) = 1
        /\ Cardinality(NewRowsOn(last.req.id_to)) = 1
        /\ \A b \in NewRowsOn(last.req.id_from) :
              /\ b.is_current
              /\ b.running_total + last.req.amount
                     \in CurrentTotals(last.pre, last.req.id_from)
        /\ \A b \in NewRowsOn(last.req.id_to) :
              /\ b.is_current
              /\ b.running_total - last.req.amount
                     \in CurrentTotals(last.pre, last.req.id_to)

(* C9, transfer pre-check: a transfer of A from an account whose current    *)
(* total, 0 when no row of the account is flagged current, is below A is    *)
(* rejected with NegativeBalance.                                           *)
FlaggedTotals(d, account_id) ==
    IF CurrentRows(d, account_id) = {} THEN {0}
    ELSE {b.running_total : b \in CurrentRows(d, account_id)}

TransferPreCheck ==
    /\ last.op = "transfer"
    /\ last.req.id_from \in DOMAIN last.pre.accts
    /\ last.req.id_to \in DOMAIN last.pre.accts
    /\ \A total \in FlaggedTotals(last.pre, last.req.id_from) : total < last.req.amount
    => last.err = "NegativeBalance"

(* C10, inflow override on create: a successful create with amount > 0      *)
(* stores one new transaction with that amount in the stage category,       *)
(* whatever category was supplied; the stage amount grows by the amount, no *)
(* other category changes, and the account's total grows by the amount.     *)
NewTransactions == DOMAIN transaction \ DOMAIN last.pre.txns

InflowOverride ==
    Succeeded("create") /\ last.req.amount > 0 =>
        /\ Cardinality(NewTransactions) = 1
        /\ \A i \in DOMAIN last.pre.txns : transaction[i] = last.pre.txns[i]
        /\ \A i \in NewTransactions :
              /\ transaction[i].amount = last.req.amount
              /\ transaction[i].account_id = last.req.account_id
              /\ transaction[i].category_id \in DOMAIN category
              /\ category[transaction[i].category_id].is_stage
        /\ DOMAIN category = DOMAIN last.pre.cats
        /\ \A c \in DOMAIN category :
              category[c].assigned_amount =
                  last.pre.cats[c].assigned_amount
                  + (IF category[c].is_stage THEN last.req.amount ELSE 0)
        /\ Cardinality(CurrentRows(DB, last.req.account_id)) = 1
        /\ \A b \in CurrentRows(DB, last.req.account_id) :
              b.running_total - last.req.amount
                  \in CurrentTotals(last.pre, last.req.account_id)

(* a create request whose account and supplied category exist *)
CreateOn(c) ==
    /\ last.op = "create"
    /\ last.req.account_id \in DOMAIN last.pre.accts
    /\ last.req.category_id = c
    /\ c \in DOMAIN last.pre.cats

(* the Balance rows the request added that reference a transaction *)
NewRowsOf(transaction_id) == {b \in NewRows : b.transaction_id = transaction_id}

(* C11, outflow create effect: a create with amount < 0 on a non-stage      *)
(* category c with c.assigned_amount + amount >= 0 succeeds; c changes by   *)
(* amount, the account's total changes by amount, and exactly one Balance   *)
(* row, flagged current, references the new transaction.                    *)
OutflowCreate ==
    \A c \in DOMAIN last.pre.cats :
        /\ CreateOn(c)
        /\ last.req.amount < 0
        /\ ~last.pre.cats[c].is_stage
        /\ last.pre.cats[c].assigned_amount + last.req.amount >= 0
        => /\ last.err = "none"
           /\ category[c].assigned_amount =
                  last.pre.cats[c].assigned_amount + last.req.amount
           /\ Cardinality(NewTransactions) = 1
           /\ \A i \in NewTransactions :
                 /\ Cardinality(NewRowsOf(i)) = 1
                 /\ \A b \in NewRowsOf(i) :
                       /\ b.is_current
                       /\ b.running_total - last.req.amount
                              \in CurrentTotals(last.pre, last.req.account_id)

(* C12, create pre-check: a create with a supplied category c such that     *)
(* amount + c.assigned_amount < 0 fails with NegativeBalance before any     *)
(* write: no Transaction row, no Balance row, no category change.           *)
CreatePreCheck ==
    \A c \in DOMAIN last.pre.cats :
        /\ CreateOn(c)
        /\ last.req.amount + last.pre.cats[c].assigned_amount < 0
        => /\ last.err = "NegativeBalance"
           /\ ~last.dirty
           /\ transaction = last.pre.txns
           /\ balance = last.pre.bals
           /\ category = last.pre.cats

(* an outflow was asked of a category other than stage that cannot cover it *)
CreatePreCheckWitness ==
    \E c \in DOMAIN last.pre.cats :
        /\ CreateOn(c)
        /\ ~last.pre.cats[c].is_stage
        /\ last.req.amount + last.pre.cats[c].assigned_amount < 0
        /\ last.err = "NegativeBalance"

(* C13, no outflow from stage on create: a create with amount < 0 on the    *)
(* stage category fails, with NegativeBalance when the stage amount does    *)
(* not cover it and with Forbidden otherwise, and leaves the transactions,  *)
(* the Balance rows and the stage amount unchanged.                         *)
NoStageOutflowOnCreate ==
    \A c \in DOMAIN last.pre.cats :
        /\ CreateOn(c)
        /\ last.req.amount < 0
        /\ last.pre.cats[c].is_stage
        => /\ last.err = (IF last.pre.cats[c].assigned_amount + last.req.amount < 0
                          THEN "NegativeBalance" ELSE "Forbidden")
           /\ transaction = last.pre.txns
           /\ balance = last.pre.bals
           /\ category = last.pre.cats

(* the stage category could have covered the outflow and it was forbidden *)
NoStageOutflowOnCreateWitness ==
    \E c \in DOMAIN last.pre.cats :
        /\ CreateOn(c)
        /\ last.req.amount < 0
        /\ last.pre.cats[c].is_stage
        /\ last.pre.cats[c].assigned_amount + last.req.amount >= 0
        /\ last.err = "Forbidden"

(* a partial update whose transaction, category and account all exist *)
UpdateResolved ==
    /\ last.op = "update"
    /\ last.req.id \in DOMAIN last.pre.txns
    /\ last.req.update_data.category_id \in {Unset} \cup DOMAIN last.pre.cats
    /\ last.req.update_data.account_id \in {Unset} \cup DOMAIN last.pre.accts

Effective(supplied, value) == IF supplied # Unset THEN supplied ELSE value

EffectiveAmount ==
    Effective(last.req.update_data.amount, last.pre.txns[last.req.id].amount)

EffectiveCategory ==
    Effective(last.req.update_data.category_id, last.pre.txns[last.req.id].category_id)

EffectiveAccount ==
    Effective(last.req.update_data.account_id, last.pre.txns[last.req.id].account_id)

(* C14, stage-outflow rule on update: a partial update fails with Forbidden *)
(* exactly when its effective amount (the new one if supplied) is negative  *)
(* and its effective category (the new one if supplied) is the stage        *)
(* category.                                                                *)
StageOutflowOnUpdate ==
    UpdateResolved =>
        (last.err = "Forbidden"
         <=> /\ EffectiveAmount < 0
             /\ EffectiveCategory \in DOMAIN last.pre.cats
             /\ last.pre.cats[EffectiveCategory].is_stage)

(* the transaction a partial update names, as stored before the request *)
Stored == last.pre.txns[last.req.id]

AmountDifference == last.req.update_data.amount - Stored.amount

(* the update changes the amount and neither the category nor the account *)
AmountOnlyUpdate ==
    /\ UpdateResolved
    /\ last.req.update_data.amount # Unset
    /\ last.req.update_data.amount # Stored.amount
    /\ Same(last.req.update_data.category_id, Stored.category_id)
    /\ Same(last.req.update_data.account_id, Stored.account_id)

(* the stage-outflow rule, which precedes the pre-checks, does not apply *)
StageRuleSilent ==
    ~(/\ EffectiveAmount < 0
      /\ EffectiveCategory \in DOMAIN last.pre.cats
      /\ last.pre.cats[EffectiveCategory].is_stage)

CategoryShort ==
    /\ Stored.category_id \in DOMAIN last.pre.cats
    /\ last.pre.cats[Stored.category_id].assigned_amount + AmountDifference < 0

AccountShort ==
    \A total \in CurrentTotals(last.pre, Stored.account_id) :
        total + AmountDifference < 0

(* C15, amount-only update rejection: an update that changes only the       *)
(* amount, on which the stage rule is silent, and that would take the       *)
(* transaction's category or its account below zero fails with              *)
(* NegativeBalance and leaves the category amounts, the Balance rows and    *)
(* the stored transaction as they were.                                     *)
AmountOnlyRejection ==
    AmountOnlyUpdate /\ StageRuleSilent /\ (CategoryShort \/ AccountShort) =>
        /\ last.err = "NegativeBalance"
        /\ transaction = last.pre.txns
        /\ balance = last.pre.bals
        /\ category = last.pre.cats

(* the update names an account other than the stored one *)
AccountChangingUpdate ==
    /\ UpdateResolved
    /\ last.req.update_data.account_id # Unset
    /\ last.req.update_data.account_id # Stored.account_id

(* the origin account would go below zero without the old amount *)
OriginShort ==
    \A total \in CurrentTotals(last.pre, Stored.account_id) :
        total - Stored.amount < 0

(* the destination account would go below zero with the post-update amount *)
DestinationShort ==
    \A total \in CurrentTotals(last.pre, last.req.update_data.account_id) :
        total + EffectiveAmount < 0

(* C16, account-change rejection: an update that changes the account, on    *)
(* which the stage rule is silent, fails with NegativeBalance, with no      *)
(* Balance row deleted or appended, whenever the origin total minus the old *)
(* amount or the destination total plus the post-update amount is negative, *)
(* whether or not the amount changes too.                                   *)
AccountChangeRejection ==
    AccountChangingUpdate /\ StageRuleSilent /\ (OriginShort \/ DestinationShort) =>
        /\ last.err = "NegativeBalance"
        /\ balance = last.pre.bals

(* C17, account-change effect: after a successful update that moves T from *)
(* X to another account Y, the total of X is its previous total minus T's  *)
(* old amount and the total of Y its previous total plus T's post-update   *)
(* amount, whatever the history of X.                                      *)
AccountChangeEffect ==
    AccountChangingUpdate /\ last.err = "none" =>
        /\ \A total \in CurrentTotals(DB, Stored.account_id) :
              total + Stored.amount \in CurrentTotals(last.pre, Stored.account_id)
        /\ \A total \in CurrentTotals(DB, last.req.update_data.account_id) :
              total - EffectiveAmount
                  \in CurrentTotals(last.pre, last.req.update_data.account_id)

(* a successful delete of a transaction *)
Deleted == Succeeded("delete")

Gone == last.pre.txns[last.req.id]

(* a delete request for a stored transaction that has a category *)
DeleteOfCategorised ==
    /\ last.op = "delete"
    /\ last.req.id \in DOMAIN last.pre.txns
    /\ Gone.category_id \in DOMAIN last.pre.cats

(* the other transactions that the account of the deleted one had *)
Others ==
    {i \in DOMAIN last.pre.txns \ {last.req.id} :
        last.pre.txns[i].account_id = Gone.account_id}

DeleteReversal ==
    Deleted /\ Others # {} =>
        \A total \in CurrentTotals(DB, Gone.account_id) :
            /\ total + Gone.amount \in CurrentTotals(last.pre, Gone.account_id)
            /\ total = Recorded(DB, Gone.account_id)

(* C20, transfers do not touch categories: a successful transfer creates    *)
(* exactly two transactions, -A on the from-account and +A on the           *)
(* to-account, both is_transfer and without category, and leaves every      *)
(* category amount unchanged.                                               *)
TransferLegs ==
    Succeeded("transfer") =>
        /\ Cardinality(NewTransactions) = 2
        /\ \A i \in DOMAIN last.pre.txns :
              i \in DOMAIN transaction /\ transaction[i] = last.pre.txns[i]
        /\ \E i, j \in NewTransactions :
              /\ i # j
              /\ transaction[i].amount = 0 - last.req.amount
              /\ transaction[i].account_id = last.req.id_from
              /\ transaction[j].amount = last.req.amount
              /\ transaction[j].account_id = last.req.id_to
              /\ \A k \in {i, j} : /\ transaction[k].is_transfer
                                   /\ transaction[k].category_id = NoneId
        /\ category = last.pre.cats

(* a transfer between two accounts succeeded *)
TransferLegsWitness ==
    /\ Succeeded("transfer")
    /\ last.req.id_from # last.req.id_to
    /\ Cardinality(NewTransactions) = 2

(* C21, transfer/category exclusion: in every state every transaction with *)
(* is_transfer has no category; no create, transfer or partial update, one *)
(* that supplies a category_id for a transfer leg included, produces a     *)
(* transfer transaction with a category.                                   *)
TransferCategoryExclusion ==
    \A i \in DOMAIN transaction :
        transaction[i].is_transfer => transaction[i].category_id = NoneId

(* a partial update supplied a stored category for a transfer leg *)
TransferCategoryExclusionWitness ==
    /\ last.op = "update"
    /\ last.req.id \in DOMAIN last.pre.txns
    /\ last.pre.txns[last.req.id].is_transfer
    /\ last.req.update_data.category_id \in DOMAIN last.pre.cats
    /\ last.req.id \in DOMAIN transaction
    /\ transaction[last.req.id].is_transfer

-----------------------------------------------------------------------------
(* Account endpoints *)

(* POST /account: is_checking takes the column default False *)
create_account(d, name, iban_tail) ==
    IF \E a \in DOMAIN d.accts : d.accts[a].name = name
    THEN Fail("BadRequest", d)
    ELSE IF /\ iban_tail # NoneId
            /\ \E a \in DOMAIN d.accts : d.accts[a].iban_tail = iban_tail
    THEN Fail("BadRequest", d)
    ELSE Ok([d EXCEPT !.accts = (NextId(DOMAIN d.accts) :>
                                    [is_checking |-> FALSE, name |-> name,
                                     iban_tail |-> iban_tail]) @@ d.accts])

(* the UNIQUE constraints of the account table, checked by the database *)
unique_accounts(accts) ==
    \A a, b \in DOMAIN accts :
        a # b => /\ accts[a].name # accts[b].name
                 /\ accts[a].iban_tail = NoneId \/ accts[a].iban_tail # accts[b].iban_tail

(* PATCH /account/{id}: the handler sets what the request carries and checks *)
(* nothing; a duplicate name or IBAN tail makes the commit raise             *)
partially_update_account(d, id, upd) ==
    IF id \notin DOMAIN d.accts THEN Fail("NotFound", d)
    ELSE LET model == [d.accts[id] EXCEPT
                          !.name = IF upd.name # Unset THEN upd.name ELSE @,
                          !.iban_tail = IF upd.iban_tail # Unset THEN upd.iban_tail ELSE @]
             d1 == [d EXCEPT !.accts[id] = model]
         IN  IF unique_accounts(d1.accts) THEN Ok(d1) ELSE Fail("Unexpected", d1)

account_is_not_checking(d, id) ==
    ~d.accts[id].is_checking

(* the default account is protected from deletion *)
account_is_checking(d, id) ==
    d.accts[id].is_checking

(* db.delete(account_model): Account.transactions has no delete cascade, the *)
(* unit of work sets account_id of the account's transactions to NULL        *)
deleted_account(d, id) ==
    [d EXCEPT !.accts = [a \in DOMAIN d.accts \ {id} |-> d.accts[a]],
              !.txns = [i \in DOMAIN d.txns |->
                           IF d.txns[i].account_id = id
                           THEN [d.txns[i] EXCEPT !.account_id = NoneId]
                           ELSE d.txns[i]]]

(* DELETE /account/{id} *)
delete_account(d, id) ==
    IF id \notin DOMAIN d.accts THEN {Fail("NotFound", d)}
    ELSE IF Cardinality(DOMAIN d.accts) = 1 THEN {Fail("Forbidden", d)}
    ELSE IF account_is_checking(d, id) THEN {Fail("Forbidden", d)}
    ELSE IF CurrentRows(d, id) = {} THEN {Ok(deleted_account(d, id))}
    ELSE {IF b.running_total # 0 THEN Fail("Forbidden", d) ELSE Ok(deleted_account(d, id))
          : b \in CurrentRows(d, id)}

CreateAccountRequests == [name : Names, iban_tail : {NoneId} \cup IbanTails]

(* model_dump(exclude_unset=True) of an AccountPartialRequest *)
AccountUpdateRequests == [name : {Unset} \cup Names, iban_tail : {Unset} \cup IbanTails]

CreateAccount(name, iban_tail) ==
    /\ Serving
    /\ Finish("create_account", [name |-> name, iban_tail |-> iban_tail],
              create_account(DB, name, iban_tail), now)

PartiallyUpdateAccount(id, upd) ==
    /\ Serving
    /\ Finish("update_account", [id |-> id, update_data |-> upd],
              partially_update_account(DB, id, upd), now)

DeleteAccount(id) ==
    /\ Serving
    /\ \E out \in delete_account(DB, id) :
          Finish("delete_account", [id |-> id], out, now)

(* The accounts: accounts are created, renamed and deleted while            *)
(* transactions are created and deleted on them.                            *)
AccountsInit ==
    /\ transaction = <<>>
    /\ balance = {}
    /\ category = (1 :> [assigned_amount |-> 0, is_stage |-> TRUE, title |-> 1])
                  @@ (2 :> [assigned_amount |-> 1, is_stage |-> FALSE, title |-> 2])
                  @@ (3 :> [assigned_amount |-> 1, is_stage |-> FALSE, title |-> 3])
    /\ account = (1 :> [is_checking |-> TRUE, name |-> 1, iban_tail |-> NoneId])
                 @@ (2 :> [is_checking |-> FALSE, name |-> 2, iban_tail |-> NoneId])
    /\ now = 0
    /\ last = [op |-> "init", req |-> <<>>, err |-> "none", dirty |-> FALSE,
               pre |-> DB]
    /\ budget = MaxAccountOps

AccountsNext ==
    \/ \E r \in CreateRequests : CreateTransaction(r.amount, r.category_id, r.account_id)
    \/ \E id \in DOMAIN transaction \cup {AbsentTransaction} : DeleteTransaction(id)
    \/ \E r \in CreateAccountRequests : CreateAccount(r.name, r.iban_tail)
    \/ \E id \in DOMAIN account \cup {AbsentAccount} :
          \E upd \in AccountUpdateRequests : PartiallyUpdateAccount(id, upd)
    \/ \E id \in DOMAIN account \cup {AbsentAccount} : DeleteAccount(id)

SpecAccounts == AccountsInit /\ [][AccountsNext]_vars

-----------------------------------------------------------------------------
DefaultAccounts == {a \in DOMAIN account : account[a].is_checking}

(* a delete request for a stored account *)
DeleteOfAccount == last.op = "delete_account" /\ last.req.id \in DOMAIN last.pre.accts

(* C22, account existence: from a state with exactly one default account,  *)
(* after any sequence of account creates, partial updates and deletes at   *)
(* least one account exists and exactly one is the default; a delete of    *)
(* the last account or of the default account fails with Forbidden and     *)
(* removes nothing.                                                        *)
AccountExistence ==
    /\ DOMAIN account # {}
    /\ Cardinality(DefaultAccounts) = 1
    /\ DeleteOfAccount /\ (\/ Cardinality(DOMAIN last.pre.accts) = 1
                           \/ last.pre.accts[last.req.id].is_checking) =>
          /\ last.err = "Forbidden"
          /\ DB = last.pre

(* the last account, the default one, was asked to be deleted after another *)
(* account had been deleted                                                 *)
AccountExistenceWitness ==
    /\ DeleteOfAccount
    /\ Cardinality(DOMAIN last.pre.accts) = 1
    /\ last.pre.accts[last.req.id].is_checking
    /\ 2 \notin DOMAIN account
    /\ last.err = "Forbidden"

(* C23, funded accounts cannot be deleted: in every state, those reached    *)
(* after transaction deletes included, a delete of an account whose         *)
(* transactions' amounts sum to a nonzero total fails with Forbidden and    *)
(* the account remains.                                                     *)
FundedAccountsStay ==
    DeleteOfAccount /\ Recorded(last.pre, last.req.id) # 0 =>
        /\ last.err = "Forbidden"
        /\ last.req.id \in DOMAIN account

-----------------------------------------------------------------------------
(* Category creation *)

(* the UNIQUE constraint of the category table, checked by the database *)
unique_categories(cats) ==
    \A a, b \in DOMAIN cats : a # b => cats[a].title # cats[b].title

(* POST /category: assigned_amount and is_stage take the column defaults; a *)
(* duplicate title makes the commit raise                                   *)
create_category(d, title) ==
    LET d1 == [d EXCEPT !.cats = (NextId(DOMAIN d.cats) :>
                                    [assigned_amount |-> 0, is_stage |-> FALSE,
                                     title |-> title]) @@ d.cats]
    IN  IF unique_categories(d1.cats) THEN Ok(d1) ELSE Fail("Unexpected", d1)

CreateCategory(title) ==
    /\ Serving
    /\ Finish("create_category", [title |-> title], create_category(DB, title), now)

(* The categories: categories are created and deleted and amounts moved      *)
(* between them while transactions are created and deleted on them.          *)
CategoriesInit ==
    /\ transaction = <<>>
    /\ balance = {}
    /\ category = (1 :> [assigned_amount |-> 0, is_stage |-> TRUE, title |-> 1])
                  @@ (2 :> [assigned_amount |-> 1, is_stage |-> FALSE, title |-> 2])
                  @@ (3 :> [assigned_amount |-> 1, is_stage |-> FALSE, title |-> 3])
    /\ account = (1 :> [is_checking |-> TRUE, name |-> 1, iban_tail |-> NoneId])
                 @@ (2 :> [is_checking |-> FALSE, name |-> 2, iban_tail |-> NoneId])
    /\ now = 0
    /\ last = [op |-> "init", req |-> <<>>, err |-> "none", dirty |-> FALSE,
               pre |-> DB]
    /\ budget = MaxCategoryOps

CategoriesNext ==
    \/ \E r \in CreateRequests : CreateTransaction(r.amount, r.category_id, r.account_id)
    \/ \E id \in DOMAIN transaction \cup {AbsentTransaction} : DeleteTransaction(id)
    \/ \E title \in Titles : CreateCategory(title)
    \/ \E id \in DOMAIN category \cup {AbsentCategory} : DeleteCategory(id)
    \/ \E r \in MoveRequests : MoveAmount(r.id, r.id_to, r.amount)

SpecCategories == CategoriesInit /\ [][CategoriesNext]_vars

-----------------------------------------------------------------------------
(* C24, stage category uniqueness and permanence: in every state at most   *)
(* one category has is_stage, and a delete of the stage category is always *)
(* rejected, so the stage category exists in every state after its         *)
(* creation.                                                               *)
StagePermanence ==
    /\ Cardinality(StageCategories(DB)) <= 1
    /\ StageCategories(last.pre) \subseteq StageCategories(DB)
    /\ last.op = "delete_category" /\ last.req.id \in StageCategories(last.pre) =>
          /\ Failed
          /\ category = last.pre.cats

(* the stage category was asked to be deleted after a category was created *)
StagePermanenceWitness ==
    /\ last.op = "delete_category"
    /\ last.req.id \in StageCategories(last.pre)
    /\ Cardinality(DOMAIN category) > 3
    /\ StageCategories(DB) = {StageId}

(* update_category_amount applied to the tables of the state *)
apply_delta(category_id, delta) == update_category_amount(DB, category_id, delta)

(* C25, category ledger guard: update_category_amount fails with NotFound   *)
(* when the category is absent and with NegativeBalance when                *)
(* assigned_amount + delta < 0 and the category is not the stage category,  *)
(* leaving assigned_amount unchanged in both cases; otherwise it sets       *)
(* assigned_amount to assigned_amount + delta and changes no other          *)
(* category.                                                                *)
CategoryLedgerGuard ==
    \A category_id \in DOMAIN category \cup {NoneId, AbsentCategory} :
        \A delta \in Amounts :
            LET out == apply_delta(category_id, delta)
            IN  IF category_id \notin DOMAIN category
                THEN out.err = "NotFound" /\ out.d.cats = category
                ELSE IF /\ category[category_id].assigned_amount + delta < 0
                        /\ ~category[category_id].is_stage
                THEN out.err = "NegativeBalance" /\ out.d.cats = category
                ELSE /\ out.err = "none"
                     /\ out.d.cats = [category EXCEPT
                            ![category_id].assigned_amount = @ + delta]

-----------------------------------------------------------------------------
(* the total the append starts from, as the claim words it *)
StartingTotals(account_id) ==
    LET rows == AccountRows(DB, account_id)
        flagged == {b \in rows : b.is_current}
        recent == {b \in rows : \A c \in rows : c.entry_datetime <= b.entry_datetime}
    IN  IF flagged # {} THEN {b.running_total : b \in flagged}
        ELSE IF rows # {} THEN {b.running_total : b \in recent}
        ELSE {0}

(* C26, append value: create_balance_entry inserts exactly one row, with    *)
(* running_total = current_total + delta, where current_total is the total  *)
(* of the account's row flagged is_current or, when no row is flagged, of   *)
(* its most recent row or, when it has no row, 0; after the append the new  *)
(* row is flagged current and every older row of the account is not.        *)
AppendValue ==
    \A account_id \in DOMAIN account : \A delta \in Amounts :
        \A transaction_id \in {i \in DOMAIN transaction :
                                  transaction[i].account_id = account_id} :
            \A d \in create_balance_entry(DB, transaction_id, account_id, delta,
                                          Unset, now) :
                LET after == flush(d).bals
                    added == {b \in after : b.id \notin {c.id : c \in balance}}
                IN  /\ Cardinality(added) = 1
                    /\ Cardinality(after) = Cardinality(balance) + 1
                    /\ \A b \in added :
                          /\ b.running_total - delta \in StartingTotals(account_id)
                          /\ b.is_current
                          /\ b.transaction_id = transaction_id
                          /\ b.entry_datetime = now
                    /\ \A b \in AccountRows(flush(d), account_id) \ added :
                          ~b.is_current
                    /\ \A b \in balance :
                          \E c \in after :
                              /\ c.id = b.id
                              /\ c.running_total = b.running_total
                              /\ c.transaction_id = b.transaction_id

(* an account has rows and none of them is flagged, and their timestamps differ *)
AppendValueWitness ==
    \E account_id \in DOMAIN account :
        /\ CurrentRows(DB, account_id) = {}
        /\ \E b, c \in AccountRows(DB, account_id) :
              /\ b.entry_datetime < c.entry_datetime
              /\ b.running_total # c.running_total

-----------------------------------------------------------------------------
(* the row is in the table with the values it was inserted with *)
Kept(b) ==
    \E c \in balance :
        /\ c.id = b.id
        /\ c.running_total = b.running_total
        /\ c.transaction_amount_record = b.transaction_amount_record
        /\ c.entry_datetime = b.entry_datetime
        /\ c.transaction_id = b.transaction_id

(* the row the request appended took the id of a removed row and carries   *)
(* the values that row had: the latest id, the second of the request, the  *)
(* flag                                                                    *)
Reinserted(b) ==
    /\ Kept(b)
    /\ b.id = Max({c.id : c \in balance})
    /\ b.entry_datetime = now
    /\ \A c \in balance : c.id = b.id => c.is_current

(* C27, append-only history: a Balance row that was in the table before a  *)
(* request is in the table after it with the same running_total,           *)
(* transaction_amount_record, entry_datetime and transaction_id, its       *)
(* is_current flag alone may differ, or it was removed by a delete or an   *)
(* update of its transaction together with every row that transaction had. *)
AppendOnlyHistory ==
    \A b \in last.pre.bals :
        \/ Kept(b)
        \/ /\ last.op \in {"delete", "update"}
           /\ b.transaction_id = last.req.id
           /\ \A c \in last.pre.bals :
                 c.transaction_id = b.transaction_id => ~Kept(c) \/ Reinserted(c)

(* an update moved a transaction that had two rows to another account, and *)
(* the rows of another transaction stayed                                  *)
AppendOnlyHistoryWitness ==
    /\ AccountChangingUpdate
    /\ last.err = "none"
    /\ Cardinality({b \in last.pre.bals : b.transaction_id = last.req.id}) = 2
    /\ \A b \in last.pre.bals : b.transaction_id = last.req.id => ~Kept(b)

-----------------------------------------------------------------------------
(* a successful update that changes the category and leaves the account *)
CategoryChangingUpdate ==
    /\ UpdateResolved
    /\ last.err = "none"
    /\ last.req.update_data.category_id # Unset
    /\ last.req.update_data.category_id # Stored.category_id
    /\ Same(last.req.update_data.account_id, Stored.account_id)

(* C28, category change without double counting: a successful partial      *)
(* update that changes the category of T from c_old to c_new and leaves    *)
(* its account changes c_old by exactly -old amount and c_new by exactly   *)
(* +post-update amount, applies no further delta to any category, and      *)
(* appends a Balance row, with delta new - old, only if the amount changed. *)
CategoryChangeOnce ==
    CategoryChangingUpdate =>
        /\ DOMAIN category = DOMAIN last.pre.cats
        /\ \A c \in DOMAIN category :
              category[c].assigned_amount =
                  last.pre.cats[c].assigned_amount
                  + (IF c = last.req.update_data.category_id THEN EffectiveAmount ELSE 0)
                  - (IF c = Stored.category_id THEN Stored.amount ELSE 0)
        /\ IF EffectiveAmount = Stored.amount
           THEN balance = last.pre.bals
           ELSE /\ Cardinality(NewRows) = 1
                /\ \A b \in NewRows :
                      /\ b.transaction_id = last.req.id
                      /\ b.running_total - AmountDifference
                             \in CurrentTotals(last.pre, Stored.account_id)
                /\ \A b \in last.pre.bals : Kept(b)

(* an update changed the category and the amount of a transaction *)
CategoryChangeOnceWitness ==
    /\ CategoryChangingUpdate
    /\ EffectiveAmount # Stored.amount
    /\ Stored.category_id \in DOMAIN last.pre.cats

-----------------------------------------------------------------------------
(* The funded ledger: every request of Spec, served from the tables that two *)
(* POST /transaction {amount: 1, account_id: 1} in the same second leave.    *)
FundedInit ==
    /\ transaction = (1 :> [amount |-> 1, is_transfer |-> FALSE, category_id |-> StageId,
                            account_id |-> 1, creation_datetime |-> 0,
                            last_update_datetime |-> 0])
                     @@ (2 :> [amount |-> 1, is_transfer |-> FALSE, category_id |-> StageId,
                               account_id |-> 1, creation_datetime |-> 0,
                               last_update_datetime |-> 0])
    /\ balance = {[id |-> 1, entry_datetime |-> 0, transaction_amount_record |-> 1,
                   running_total |-> 1, is_current |-> FALSE, transaction_id |-> 1],
                  [id |-> 2, entry_datetime |-> 0, transaction_amount_record |-> 1,
                   running_total |-> 2, is_current |-> TRUE, transaction_id |-> 2]}
    /\ category = (1 :> [assigned_amount |-> 2, is_stage |-> TRUE, title |-> 1])
                  @@ (2 :> [assigned_amount |-> 1, is_stage |-> FALSE, title |-> 2])
                  @@ (3 :> [assigned_amount |-> 1, is_stage |-> FALSE, title |-> 3])
    /\ account = (1 :> [is_checking |-> TRUE, name |-> 1, iban_tail |-> NoneId])
                 @@ (2 :> [is_checking |-> FALSE, name |-> 2, iban_tail |-> NoneId])
    /\ now = 0
    /\ last = [op |-> "init", req |-> <<>>, err |-> "none", dirty |-> FALSE,
               pre |-> DB]
    /\ budget = MaxFundedOps

SpecFunded == FundedInit /\ [][Next]_vars

(* a successful update that changes the account and the amount and leaves *)
(* the category                                                           *)
AccountAmountUpdate ==
    /\ AccountChangingUpdate
    /\ last.err = "none"
    /\ last.req.update_data.amount # Unset
    /\ last.req.update_data.amount # Stored.amount
    /\ Same(last.req.update_data.category_id, Stored.category_id)

(* C29, category delta when account and amount change together: a          *)
(* successful partial update that changes the account and the amount of T  *)
(* and leaves its category c changes c by exactly new amount - old amount, *)
(* as an amount-only update does, while the destination account receives a *)
(* Balance row with delta equal to the full new amount.                    *)
AccountAmountCategoryDelta ==
    AccountAmountUpdate =>
        /\ \A c \in DOMAIN category :
              category[c].assigned_amount =
                  last.pre.cats[c].assigned_amount
                  + (IF c = Stored.category_id THEN AmountDifference ELSE 0)
        /\ \E b \in NewRowsOn(last.req.update_data.account_id) :
              b.running_total - last.req.update_data.amount
                  \in CurrentTotals(last.pre, last.req.update_data.account_id)

(* C30, amount-only update effect: a successful partial update that changes *)
(* only the amount of T appends exactly one Balance row on T's account,     *)
(* with running_total = previous current total + (new - old), flags it      *)
(* current, changes T's category by exactly new - old, and deletes no       *)
(* Balance row.                                                             *)
AmountOnlyEffect ==
    AmountOnlyUpdate /\ last.err = "none" =>
        /\ Cardinality(NewRows) = 1
        /\ NewRows = NewRowsOn(Stored.account_id)
        /\ \A b \in NewRows :
              /\ b.running_total - AmountDifference
                     \in CurrentTotals(last.pre, Stored.account_id)
              /\ b.is_current
              /\ b.transaction_id = last.req.id
        /\ \A b \in last.pre.bals : Kept(b)
        /\ DOMAIN category = DOMAIN last.pre.cats
        /\ \A c \in DOMAIN category :
              category[c].assigned_amount =
                  last.pre.cats[c].assigned_amount
                  + (IF c = Stored.category_id THEN AmountDifference ELSE 0)
        /\ Stored.category_id \in DOMAIN category

(* an update changed the amount alone of a transaction that was not the    *)
(* last one applied on its account                                         *)
AmountOnlyEffectWitness ==
    /\ AmountOnlyUpdate
    /\ last.err = "none"
    /\ \E b \in last.pre.bals : b.is_current /\ b.transaction_id # last.req.id

-----------------------------------------------------------------------------
(* the update carries payee, transaction date or description alone *)
MetadataOnlyUpdate ==
    /\ last.op = "update"
    /\ last.req.id \in DOMAIN last.pre.txns
    /\ last.req.update_data.amount = Unset
    /\ last.req.update_data.category_id = Unset
    /\ last.req.update_data.account_id = Unset

(* C31, metadata-only update: a partial update that supplies only payee,    *)
(* transaction date or description succeeds on every stored transaction,    *)
(* transfer legs, transactions without category and transactions of an      *)
(* account without a row flagged current included, and leaves all category  *)
(* amounts and all Balance rows unchanged.                                  *)
MetadataOnlyUpdateSucceeds ==
    MetadataOnlyUpdate =>
        /\ last.err = "none"
        /\ category = last.pre.cats
        /\ balance = last.pre.bals

(* C32, shared transfer timestamp: the two transactions that a successful  *)
(* transfer creates carry the same creation_datetime and the same          *)
(* last_update_datetime, also when the clock advances between the creation *)
(* of the first and of the second leg.                                     *)
SharedTransferTimestamp ==
    Succeeded("transfer") =>
        \A i, j \in NewTransactions :
            /\ transaction[i].creation_datetime = transaction[j].creation_datetime
            /\ transaction[i].last_update_datetime = transaction[j].last_update_datetime

-----------------------------------------------------------------------------
(* the sum of assigned_amount over the categories of a table *)
RECURSIVE SumAssigned(_, _)
SumAssigned(cats, ids) ==
    IF ids = {} THEN 0
    ELSE LET c == CHOOSE k \in ids : TRUE
         IN  cats[c].assigned_amount + SumAssigned(cats, ids \ {c})

Assigned(cats) == SumAssigned(cats, DOMAIN cats)

(* C33, category delete sweeps funds to stage: a successful delete of a    *)
(* non-stage category c removes c, adds the assigned_amount c had to the   *)
(* stage category and leaves the other categories alone, so the sum of     *)
(* assigned_amount over all categories is the same before and after.       *)
CategoryDeleteSweep ==
    Succeeded("delete_category") =>
        /\ last.req.id \in DOMAIN last.pre.cats \ {StageId}
        /\ DOMAIN category = DOMAIN last.pre.cats \ {last.req.id}
        /\ category[StageId].assigned_amount =
               last.pre.cats[StageId].assigned_amount
               + last.pre.cats[last.req.id].assigned_amount
        /\ \A c \in DOMAIN category \ {StageId} : category[c] = last.pre.cats[c]
        /\ Assigned(category) = Assigned(last.pre.cats)

(* a category that held funds was deleted *)
CategoryDeleteSweepWitness ==
    /\ Succeeded("delete_category")
    /\ last.pre.cats[last.req.id].assigned_amount # 0
    /\ category[StageId].assigned_amount # last.pre.cats[StageId].assigned_amount

(* a move between two existing categories *)
MoveBetween ==
    /\ last.op = "move"
    /\ last.req.id \in DOMAIN last.pre.cats
    /\ last.req.id_to \in DOMAIN last.pre.cats

MoveShort == last.pre.cats[last.req.id].assigned_amount - last.req.amount < 0

(* C34, category move: a move of amount > 0 between two existing categories *)
(* fails and changes nothing when the from category, stage or not, holds    *)
(* less than the amount; otherwise it takes the amount from the from        *)
(* category and adds it to the to category, the sum of assigned_amount over *)
(* all categories is unchanged, and a move with from = to changes no amount. *)
CategoryMove ==
    MoveBetween =>
        /\ transaction = last.pre.txns
        /\ balance = last.pre.bals
        /\ DOMAIN category = DOMAIN last.pre.cats
        /\ IF MoveShort
           THEN last.err # "none" /\ category = last.pre.cats
           ELSE /\ last.err = "none"
                /\ Assigned(category) = Assigned(last.pre.cats)
                /\ \A c \in DOMAIN category :
                       category[c] =
                         [last.pre.cats[c] EXCEPT !.assigned_amount =
                            @ - (IF c = last.req.id THEN last.req.amount ELSE 0)
                              + (IF c = last.req.id_to THEN last.req.amount ELSE 0)]

(* funds were moved from one category to another *)
CategoryMoveWitness ==
    /\ MoveBetween
    /\ last.err = "none"
    /\ last.req.id # last.req.id_to
    /\ category[last.req.id_to].assigned_amount
         = last.pre.cats[last.req.id_to].assigned_amount + last.req.amount

-----------------------------------------------------------------------------
(* C35, current pointer is never lost: every account with at least one     *)
(* Balance row has a row flagged is_current, and one only, also after a    *)
(* transaction delete and after an account-changing update.                *)
CurrentPointerKept ==
    \A a \in DOMAIN account :
        AccountRows(DB, a) # {} => Cardinality(CurrentRows(DB, a)) = 1

-----------------------------------------------------------------------------
(* The transaction endpoints alone: create, partial update and delete, with *)
(* no category endpoint and no transfer in between, served from the tables  *)
(* that two POST /transaction {amount: 1, account_id: 1} in the same second *)
(* leave.                                                                   *)
TransactionsInit ==
    /\ transaction = (1 :> [amount |-> 1, is_transfer |-> FALSE, category_id |-> StageId,
                            account_id |-> 1, creation_datetime |-> 0,
                            last_update_datetime |-> 0])
                     @@ (2 :> [amount |-> 1, is_transfer |-> FALSE, category_id |-> StageId,
                               account_id |-> 1, creation_datetime |-> 0,
                               last_update_datetime |-> 0])
    /\ balance = {[id |-> 1, entry_datetime |-> 0, transaction_amount_record |-> 1,
                   running_total |-> 1, is_current |-> FALSE, transaction_id |-> 1],
                  [id |-> 2, entry_datetime |-> 0, transaction_amount_record |-> 1,
                   running_total |-> 2, is_current |-> TRUE, transaction_id |-> 2]}
    /\ category = (1 :> [assigned_amount |-> 2, is_stage |-> TRUE, title |-> 1])
                  @@ (2 :> [assigned_amount |-> 1, is_stage |-> FALSE, title |-> 2])
                  @@ (3 :> [assigned_amount |-> 1, is_stage |-> FALSE, title |-> 3])
    /\ account = (1 :> [is_checking |-> TRUE, name |-> 1, iban_tail |-> NoneId])
                 @@ (2 :> [is_checking |-> FALSE, name |-> 2, iban_tail |-> NoneId])
    /\ now = 0
    /\ last = [op |-> "init", req |-> <<>>, err |-> "none", dirty |-> FALSE,
               pre |-> DB]
    /\ budget = MaxTransactionOps

TransactionsNext ==
    \/ \E r \in CreateRequests : CreateTransaction(r.amount, r.category_id, r.account_id)
    \/ \E r \in UpdateTargets : PartiallyUpdateTransaction(r[1], r[2])
    \/ \E id \in DOMAIN transaction \cup {AbsentTransaction} : DeleteTransaction(id)

SpecTransactions == TransactionsInit /\ [][TransactionsNext]_vars

(* the assigned_amount the categories start with, before any transaction *)
InitialAssigned == (1 :> 0) @@ (2 :> 1) @@ (3 :> 1)

(* the sum of the amounts of the transactions, transfers apart, that *)
(* reference a category                                              *)
Categorised(c) ==
    SumAmounts(transaction, {i \in DOMAIN transaction :
                                /\ transaction[i].category_id = c
                                /\ ~transaction[i].is_transfer})

(* C36, category conservation: after any sequence of successful create,    *)
(* partial-update and delete requests on transactions every category's     *)
(* assigned_amount is its initial assigned_amount plus the sum of the      *)
(* amounts of the existing non-transfer transactions that reference it.    *)
CategoryConservation ==
    last.err = "none" =>
        \A c \in DOMAIN category :
            category[c].assigned_amount = InitialAssigned[c] + Categorised(c)

-----------------------------------------------------------------------------
(* a delete of an existing transaction that has no category *)
DeleteOfUncategorised ==
    /\ last.op = "delete"
    /\ last.req.id \in DOMAIN last.pre.txns
    /\ last.pre.txns[last.req.id].category_id = NoneId

(* C37, deleting a transaction without a category: the delete of an        *)
(* existing transaction whose category reference is absent, a transfer leg *)
(* for one, succeeds, removes the transaction and the Balance rows it had  *)
(* and changes no category's assigned_amount.                              *)
UncategorisedDelete ==
    DeleteOfUncategorised =>
        /\ last.err = "none"
        /\ last.req.id \notin DOMAIN transaction
        /\ \A b \in last.pre.bals :
              b.transaction_id = last.req.id => b \notin balance
        /\ category = last.pre.cats

-----------------------------------------------------------------------------
(* the Balance rows that reference a transaction *)
RowsOf(id) == {b \in balance : b.transaction_id = id}

(* C38, every transaction has a ledger entry: every existing transaction   *)
(* has at least one Balance row referencing it, and after a successful     *)
(* account-changing update it has exactly one, the row appended on the     *)
(* destination account.                                                    *)
LedgerEntryPerTransaction ==
    /\ \A i \in DOMAIN transaction : RowsOf(i) # {}
    /\ AccountChangingUpdate /\ last.err = "none" =>
           /\ Cardinality(RowsOf(last.req.id)) = 1
           /\ \A b \in RowsOf(last.req.id) :
                 b.transaction_amount_record = transaction[last.req.id].amount

(* a transaction with two Balance rows was moved to another account *)
LedgerEntryPerTransactionWitness ==
    /\ AccountChangingUpdate
    /\ last.err = "none"
    /\ Cardinality({b \in last.pre.bals : b.transaction_id = last.req.id}) > 1
    /\ Cardinality(RowsOf(last.req.id)) = 1

(* C39, no orphan Balance rows: every Balance row references an existing   *)
(* transaction; after a transaction is deleted no row references it, the   *)
(* reversing row that the delete appended included.                        *)
NoOrphanRows ==
    \A b \in balance : b.transaction_id \in DOMAIN transaction

(* C40, referential integrity of transactions: the account reference of    *)
(* every transaction names an existing account and its category reference, *)
(* when present, an existing category; no successful account delete or     *)
(* category delete leaves a transaction that points at a removed row.      *)
ReferentialIntegrity ==
    \A i \in DOMAIN transaction :
        /\ transaction[i].account_id \in DOMAIN account
        /\ transaction[i].category_id # NoneId =>
               transaction[i].category_id \in DOMAIN category

====
